---- MODULE Spec2Model ----
(***************************************************************************)
(* Model of the resilient-click primitives of src/playwright_poc.py:       *)
(*   click_with_retry          (lines 58-96)                               *)
(*   click_with_fallback_chain (lines 620-661)                             *)
(* Each is one coroutine.  A step of the model is what the coroutine does  *)
(* between two awaits: the outstanding driver call completes (returns or   *)
(* raises), the code runs up to the next await and issues that call, or    *)
(* returns.  The driver (Playwright page, asyncio.sleep) is external: its  *)
(* answer to every call is a nondeterministic choice.                      *)
(***************************************************************************)
EXTENDS Integers, Sequences, FiniteSets

VARIABLES op, locators, max_attempts, locator_idx, attempt, pc, pending, trace, result

\* AutoClickPOC.run_batch_execution (lines 507-546) and the method it calls
\* for every project, run_with_data_testid_locator (lines 320-367): the
\* counters of the batch, its position, and for every project gone through
\* what its export click returned and how the project was counted.
VARIABLES num_projects, project_num, successful, failed, bpc, exports, counted

batch_vars == <<num_projects, project_num, successful, failed, bpc, exports, counted>>

vars == <<op, locators, max_attempts, locator_idx, attempt, pc, pending, trace, result, batch_vars>>

\* ---- bounds of the model ------------------------------------------------
\* Largest max_attempts, longest chain, and most attempts one invocation can
\* make in all (Len(locators) * max_attempts); most projects in one batch.
MaxAttempts == 3
MaxChain == 3
MaxTotalAttempts == 9
MaxProjects == 2

\* ---- inputs ---------------------------------------------------------------
\* Locators are opaque strings: the code hands them to the driver and never
\* compares or inspects them.  The chains are therefore taken up to a
\* renaming of the locators: a chain names its locators "A", "B", "C" in the
\* order of their first occurrence, and may repeat a locator.
Locator == <<"A", "B", "C">>

\* The number of different locators in chain s.
Used(s) == Cardinality({s[i] : i \in 1..Len(s)})

Extensions(s) ==
    {Append(s, Locator[k]) : k \in 1..(IF Used(s) < Len(Locator) THEN Used(s) + 1 ELSE Len(Locator))}

RECURSIVE SeqsUpTo(_)
SeqsUpTo(n) ==
    IF n = 0 THEN {<<>>}
    ELSE LET shorter == SeqsUpTo(n - 1)
         IN  shorter \cup UNION {Extensions(s) : s \in {t \in shorter : Len(t) = n - 1}}

\* ---- driver calls ---------------------------------------------------------
\* A call the coroutine has issued: which driver operation, for which
\* candidate (position in the chain and the locator string), in which attempt.
Call(kind, idx, att) ==
    [kind |-> kind, idx |-> idx, locator |-> locators[idx], attempt |-> att]

\* The completed form of a call: the call and how the driver answered it.
Completed(c, res) ==
    [kind |-> c.kind, idx |-> c.idx, locator |-> c.locator, attempt |-> c.attempt, res |-> res]

\* "await f(...)" resumed: the outstanding call is over and is recorded.
Resume(res) ==
    /\ pending # <<>>
    /\ trace' = Append(trace, Completed(Head(pending), res))

\* The coroutine awaits call c next (nothing else outstanding any more).
Rest(p) == IF p = <<>> THEN <<>> ELSE Tail(p)

Await(c) == pending' = Append(Rest(pending), c)

\* The coroutine returns value v to its caller.
Return(v) ==
    /\ pending' = Rest(pending)
    /\ result' = v
    /\ pc' = "done"

\* ---- state after the call is made ---------------------------------------
\* One invocation of one of the two operations, with its arguments bound.
\* click_with_retry takes one locator: it is kept as a chain of length one.
Init ==
    /\ op \in {"retry", "chain"}
    /\ max_attempts \in (-1)..MaxAttempts
    /\ locators \in SeqsUpTo(MaxChain)
    /\ (op = "retry") => (Len(locators) = 1)
    /\ Len(locators) * max_attempts <= MaxTotalAttempts
    /\ locator_idx = 0
    /\ attempt = 0
    /\ pc = "start"
    /\ pending = <<>>
    /\ trace = <<>>
    /\ result = "pending"
    /\ num_projects = 0
    /\ project_num = 0
    /\ successful = 0
    /\ failed = 0
    /\ bpc = "none"
    /\ exports = <<>>
    /\ counted = <<>>

\* ---- click_with_retry ------------------------------------------------------
\* Variant of retry_range that runs one attempt more: range(1, max_attempts + 2).
retry_range_one_more(m) == 1..(m + 1)

\* range(1, max_attempts + 1)
retry_range(m) == 1..m

\* Head of "for attempt in range(1, max_attempts + 1)" with a as the next
\* value: the body starts with wait_for_selector; when the range is used up
\* the function falls off its end, which in Python returns None.
retry_for(a) ==
    IF a \in retry_range(max_attempts)
    THEN /\ attempt' = a
         /\ Await(Call("wait", 1, a))
         /\ pc' = "wait"
         /\ result' = result
    ELSE /\ attempt' = attempt
         /\ Return("None")
\* Variant of retry_except that gives up one attempt early.
retry_except_early ==
    IF attempt + 1 < max_attempts
    THEN /\ Await(Call("backoff", 1, attempt))
         /\ pc' = "backoff"
         /\ UNCHANGED <<attempt, result>>
    ELSE /\ attempt' = attempt
         /\ Return("False")

\* "except Exception as e": back off and go round again, or return False
\* on the last attempt.
retry_except ==
    IF attempt < max_attempts
    THEN /\ Await(Call("backoff", 1, attempt))
         /\ pc' = "backoff"
         /\ UNCHANGED <<attempt, result>>
    ELSE /\ attempt' = attempt
         /\ Return("False")

click_with_retry ==
    /\ op = "retry"
    /\ pc = "start"
    /\ retry_for(1)
    /\ UNCHANGED <<batch_vars, op, locators, max_attempts, locator_idx, trace>>

retry_wait_attached ==
    /\ op = "retry"
    /\ pc = "wait"
    /\ Resume("ok")
    /\ Await(Call("settle", 1, attempt))
    /\ pc' = "settle"
    /\ UNCHANGED <<batch_vars, op, locators, max_attempts, locator_idx, attempt, result>>
\* Variant of retry_wait_timeout that ignores the timeout and goes on to
\* the settle pause and the click.
retry_wait_timeout_ignored ==
    /\ op = "retry"
    /\ pc = "wait"
    /\ Resume("raise")
    /\ Await(Call("settle", 1, attempt))
    /\ pc' = "settle"
    /\ UNCHANGED <<batch_vars, op, locators, max_attempts, locator_idx, attempt, result>>

retry_wait_timeout ==
    /\ op = "retry"
    /\ pc = "wait"
    /\ Resume("raise")
    /\ retry_except
    /\ UNCHANGED <<batch_vars, op, locators, max_attempts, locator_idx>>

retry_settled ==
    /\ op = "retry"
    /\ pc = "settle"
    /\ Resume("ok")
    /\ Await(Call("click", 1, attempt))
    /\ pc' = "click"
    /\ UNCHANGED <<batch_vars, op, locators, max_attempts, locator_idx, attempt, result>>
\* Variant of retry_click_ok without the return: the loop goes on.
retry_click_ok_no_return ==
    /\ op = "retry"
    /\ pc = "click"
    /\ Resume("ok")
    /\ retry_for(attempt + 1)
    /\ UNCHANGED <<batch_vars, op, locators, max_attempts, locator_idx>>

retry_click_ok ==
    /\ op = "retry"
    /\ pc = "click"
    /\ Resume("ok")
    /\ Return("True")
    /\ UNCHANGED <<batch_vars, op, locators, max_attempts, locator_idx, attempt>>
\* Variant of retry_click_raises without the forced second chance: the
\* error of the normal click goes straight to the except branch.
retry_click_raises_no_force ==
    /\ op = "retry"
    /\ pc = "click"
    /\ Resume("raise")
    /\ retry_except
    /\ UNCHANGED <<batch_vars, op, locators, max_attempts, locator_idx>>

retry_click_raises ==
    /\ op = "retry"
    /\ pc = "click"
    /\ Resume("raise")
    /\ Await(Call("force", 1, attempt))
    /\ pc' = "force"
    /\ UNCHANGED <<batch_vars, op, locators, max_attempts, locator_idx, attempt, result>>

retry_force_ok ==
    /\ op = "retry"
    /\ pc = "force"
    /\ Resume("ok")
    /\ Return("True")
    /\ UNCHANGED <<batch_vars, op, locators, max_attempts, locator_idx, attempt>>
\* Variant of retry_force_raises with the forced click outside the outer
\* try: its error leaves the function.
retry_force_raises_uncaught ==
    /\ op = "retry"
    /\ pc = "force"
    /\ Resume("raise")
    /\ Return("raised")
    /\ UNCHANGED <<batch_vars, op, locators, max_attempts, locator_idx, attempt>>

retry_force_raises ==
    /\ op = "retry"
    /\ pc = "force"
    /\ Resume("raise")
    /\ retry_except
    /\ UNCHANGED <<batch_vars, op, locators, max_attempts, locator_idx>>

retry_backoff_done ==
    /\ op = "retry"
    /\ pc = "backoff"
    /\ Resume("ok")
    /\ retry_for(attempt + 1)
    /\ UNCHANGED <<batch_vars, op, locators, max_attempts, locator_idx>>

\* ---- click_with_fallback_chain ---------------------------------------------
\* Variant of chain_range that stops one short: range(1, max_attempts).
chain_range_short(m) == 1..(m - 1)

\* range(1, max_attempts + 1)
chain_range(m) == 1..m
\* Variant of chain_exhausted: the final return statement left out.
chain_exhausted_no_return == "None"

\* What the function returns once every candidate is used up (line 661).
chain_exhausted == "False"

\* Head of "for locator_idx, locator in enumerate(locators, 1)" with idx as
\* the next position.  The inner loop of a candidate starts with attempt 1;
\* when the range of attempts is empty no candidate issues any call, so the
\* outer loop runs through the whole chain and the function returns False.
chain_for_locator(idx) ==
    IF idx \in 1..Len(locators) /\ 1 \in chain_range(max_attempts)
    THEN /\ locator_idx' = idx
         /\ attempt' = 1
         /\ Await(Call("wait", idx, 1))
         /\ pc' = "wait"
         /\ result' = result
    ELSE /\ locator_idx' = (IF idx \in 1..Len(locators) THEN Len(locators) ELSE locator_idx)
         /\ attempt' = attempt
         /\ Return(chain_exhausted)

\* Head of the inner "for attempt in range(1, max_attempts + 1)" with a as
\* the next value; when the range is used up the outer loop moves on.
chain_for_attempt(a) ==
    IF a \in chain_range(max_attempts)
    THEN /\ locator_idx' = locator_idx
         /\ attempt' = a
         /\ Await(Call("wait", locator_idx, a))
         /\ pc' = "wait"
         /\ result' = result
    ELSE chain_for_locator(locator_idx + 1)
\* Variant of chain_except that abandons the candidate on its first failure.
chain_except_break == chain_for_locator(locator_idx + 1)
\* Variant of chain_except that pauses after every failed attempt, the last
\* one on a locator included.
chain_except_always_pause ==
    IF attempt <= max_attempts
    THEN /\ Await(Call("backoff", locator_idx, attempt))
         /\ pc' = "backoff"
         /\ UNCHANGED <<locator_idx, attempt, result>>
    ELSE chain_for_attempt(attempt + 1)

\* "except Exception as e": pause and go round again; after the last
\* attempt there is no pause and the inner loop ends.
chain_except ==
    IF attempt < max_attempts
    THEN /\ Await(Call("backoff", locator_idx, attempt))
         /\ pc' = "backoff"
         /\ UNCHANGED <<locator_idx, attempt, result>>
    ELSE chain_for_attempt(attempt + 1)

click_with_fallback_chain ==
    /\ op = "chain"
    /\ pc = "start"
    /\ chain_for_locator(1)
    /\ UNCHANGED <<batch_vars, op, locators, max_attempts, trace>>
\* Variant of chain_wait_attached that starts the settle pause without
\* waiting for wait_for_selector to finish.
chain_wait_attached_no_await ==
    /\ op = "chain"
    /\ pc = "wait"
    /\ pending' = Append(pending, Call("settle", locator_idx, attempt))
    /\ pc' = "settle"
    /\ UNCHANGED <<batch_vars, op, locators, max_attempts, locator_idx, attempt, result, trace>>

chain_wait_attached ==
    /\ op = "chain"
    /\ pc = "wait"
    /\ Resume("ok")
    /\ Await(Call("settle", locator_idx, attempt))
    /\ pc' = "settle"
    /\ UNCHANGED <<batch_vars, op, locators, max_attempts, locator_idx, attempt, result>>
\* Variant of chain_wait_timeout that drops the candidate on its first
\* timeout instead of retrying it.
chain_wait_timeout_skip ==
    /\ op = "chain"
    /\ pc = "wait"
    /\ Resume("raise")
    /\ chain_for_locator(locator_idx + 1)
    /\ UNCHANGED <<batch_vars, op, locators, max_attempts>>

chain_wait_timeout ==
    /\ op = "chain"
    /\ pc = "wait"
    /\ Resume("raise")
    /\ chain_except
    /\ UNCHANGED <<batch_vars, op, locators, max_attempts>>

chain_settled ==
    /\ op = "chain"
    /\ pc = "settle"
    /\ Resume("ok")
    /\ Await(Call("click", locator_idx, attempt))
    /\ pc' = "click"
    /\ UNCHANGED <<batch_vars, op, locators, max_attempts, locator_idx, attempt, result>>

chain_click_ok ==
    /\ op = "chain"
    /\ pc = "click"
    /\ Resume("ok")
    /\ Return("True")
    /\ UNCHANGED <<batch_vars, op, locators, max_attempts, locator_idx, attempt>>
\* Variant of chain_click_raises without the forced second chance.
chain_click_raises_no_force ==
    /\ op = "chain"
    /\ pc = "click"
    /\ Resume("raise")
    /\ chain_except
    /\ UNCHANGED <<batch_vars, op, locators, max_attempts>>

chain_click_raises ==
    /\ op = "chain"
    /\ pc = "click"
    /\ Resume("raise")
    /\ Await(Call("force", locator_idx, attempt))
    /\ pc' = "force"
    /\ UNCHANGED <<batch_vars, op, locators, max_attempts, locator_idx, attempt, result>>
\* Variant of chain_force_ok without the return: the inner loop goes on.
chain_force_ok_no_return ==
    /\ op = "chain"
    /\ pc = "force"
    /\ Resume("ok")
    /\ chain_for_attempt(attempt + 1)
    /\ UNCHANGED <<batch_vars, op, locators, max_attempts>>

chain_force_ok ==
    /\ op = "chain"
    /\ pc = "force"
    /\ Resume("ok")
    /\ Return("True")
    /\ UNCHANGED <<batch_vars, op, locators, max_attempts, locator_idx, attempt>>

chain_force_raises ==
    /\ op = "chain"
    /\ pc = "force"
    /\ Resume("raise")
    /\ chain_except
    /\ UNCHANGED <<batch_vars, op, locators, max_attempts>>

chain_backoff_done ==
    /\ op = "chain"
    /\ pc = "backoff"
    /\ Resume("ok")
    /\ chain_for_attempt(attempt + 1)
    /\ UNCHANGED <<batch_vars, op, locators, max_attempts>>

\* ---- specification ----------------------------------------------------------
Next ==
    \/ click_with_retry
    \/ retry_wait_attached
    \/ retry_wait_timeout
    \/ retry_settled
    \/ retry_click_ok
    \/ retry_click_raises
    \/ retry_force_ok
    \/ retry_force_raises
    \/ retry_backoff_done
    \/ click_with_fallback_chain
    \/ chain_wait_attached
    \/ chain_wait_timeout
    \/ chain_settled
    \/ chain_click_ok
    \/ chain_click_raises
    \/ chain_force_ok
    \/ chain_force_raises
    \/ chain_backoff_done

Spec == Init /\ [][Next]_vars

TypeOK ==
    /\ op \in {"retry", "chain"}
    /\ max_attempts \in (-1)..MaxAttempts
    /\ Len(locators) <= MaxChain
    /\ pc \in {"idle", "start", "wait", "settle", "click", "force", "backoff", "done"}
    /\ result \in {"pending", "True", "False", "None", "raised"}
    /\ (pc = "done") <=> (result # "pending")

\* ---- reading the history ---------------------------------------------------
Clicks == {"click", "force"}
Outcomes == {"ok", "raise"}
Positions == 1..Len(locators)

\* The calls issued so far, in the order of issue: the completed ones and
\* after them the outstanding ones.
NumIssuedCalls == Len(trace) + Len(pending)

IssuedCall(i) == IF i <= Len(trace) THEN trace[i] ELSE pending[i - Len(trace)]

IssuedOf(kinds, idxs) ==
    {i \in 1..NumIssuedCalls : IssuedCall(i).kind \in kinds /\ IssuedCall(i).idx \in idxs}

CompletedOf(kinds, idxs, ress) ==
    {i \in 1..Len(trace) : trace[i].kind \in kinds /\ trace[i].idx \in idxs /\ trace[i].res \in ress}

\* The click calls the driver answered with success.
OkClicks == CompletedOf(Clicks, Positions, {"ok"})

\* Attempt a on candidate j failed: its wait timed out, or its normal click
\* and its forced click both raised.
AttemptFailed(j, a) ==
    \/ \E i \in 1..Len(trace) :
          /\ trace[i].kind = "wait" /\ trace[i].idx = j
          /\ trace[i].attempt = a /\ trace[i].res = "raise"
    \/ /\ \E i \in 1..Len(trace) :
             /\ trace[i].kind = "click" /\ trace[i].idx = j
             /\ trace[i].attempt = a /\ trace[i].res = "raise"
       /\ \E i \in 1..Len(trace) :
             /\ trace[i].kind = "force" /\ trace[i].idx = j
             /\ trace[i].attempt = a /\ trace[i].res = "raise"

AllKinds == {"wait", "settle", "click", "force", "backoff"}

NumWaits(j) == Cardinality(IssuedOf({"wait"}, {j}))

\* ---- C1 ----------------------------------------------------------------------
\* C1: for every max_attempts >= 1, click_with_retry never issues more than
\* max_attempts wait_for_selector calls, and when it has ended without any
\* click succeeding (every attempt failed: the wait timed out, or the normal
\* and the forced click both raised) it has issued exactly max_attempts waits,
\* one per attempt 1..max_attempts, and has returned False.
C1_RetryAllFailExactlyMaxAttempts ==
    (op = "retry" /\ max_attempts >= 1) =>
        /\ NumWaits(1) <= max_attempts
        /\ (pc = "done" /\ OkClicks = {}) =>
              /\ NumWaits(1) = max_attempts
              /\ \A a \in 1..max_attempts : AttemptFailed(1, a)
              /\ result = "False"

C1_Witness ==
    /\ op = "retry" /\ max_attempts = MaxAttempts /\ pc = "done"
    /\ OkClicks = {} /\ result = "False"
    /\ CompletedOf({"wait"}, {1}, {"raise"}) # {}
    /\ CompletedOf({"force"}, {1}, {"raise"}) # {}

\* ---- C2 ----------------------------------------------------------------------
\* C2: in click_with_retry, when a click (normal or forced) of attempt k has
\* succeeded, k <= max_attempts, attempts 1..k-1 have all failed, exactly k
\* wait_for_selector calls have been issued, the function has returned True,
\* and no call of any attempt after k has been issued.
C2_RetrySuccessAtKStops ==
    (op = "retry" /\ max_attempts >= 1) =>
        \A i \in OkClicks :
            LET k == trace[i].attempt
            IN  /\ k \in 1..max_attempts
                /\ \A a \in 1..(k - 1) : AttemptFailed(1, a)
                /\ NumWaits(1) = k
                /\ pc = "done" /\ result = "True"
                /\ \A n \in 1..NumIssuedCalls : IssuedCall(n).attempt <= k

C2_Witness ==
    /\ op = "retry" /\ max_attempts = MaxAttempts /\ result = "True"
    /\ \E i \in OkClicks : trace[i].attempt = 2 /\ trace[i].kind = "force"

\* ---- C3 ----------------------------------------------------------------------
\* C3: whenever click_with_fallback_chain has returned True through the
\* candidate at position m, every candidate before m has had exactly
\* max_attempts attempts and all of them failed, the successful click is on
\* candidate m, and no driver call was issued for any candidate after m.
C3_ChainFirstInOrderWins ==
    (op = "chain" /\ result = "True") =>
        LET m == locator_idx
        IN  /\ m \in Positions
            /\ OkClicks # {}
            /\ \A i \in OkClicks : trace[i].idx = m
            /\ \A j \in 1..(m - 1) :
                  /\ NumWaits(j) = max_attempts
                  /\ \A a \in 1..max_attempts : AttemptFailed(j, a)
                  /\ CompletedOf(Clicks, {j}, {"ok"}) = {}
            /\ IssuedOf(AllKinds, (m + 1)..Len(locators)) = {}

C3_Witness ==
    /\ op = "chain" /\ result = "True" /\ Len(locators) = 3 /\ locator_idx = 2
    /\ max_attempts >= 2

\* ---- C4 ----------------------------------------------------------------------
\* C4: click_with_fallback_chain on an empty list of locators issues no
\* driver call at all and returns False.
C4_EmptyChainFalseNoCalls ==
    (op = "chain" /\ locators = <<>>) =>
        /\ NumIssuedCalls = 0
        /\ (pc = "done") => (result = "False")

C4_Witness ==
    /\ op = "chain" /\ locators = <<>> /\ max_attempts >= 1
    /\ pc = "done" /\ result = "False" /\ trace = <<>>

\* ---- C5 ----------------------------------------------------------------------
\* C5: for a non-empty chain and max_attempts >= 1, click_with_fallback_chain
\* ends with False when no click succeeded, and whenever it has returned
\* False every candidate has had exactly max_attempts attempts, all failed
\* (Len(locators) * max_attempts waits in total).
C5_ChainFalseOnlyAfterAllExhausted ==
    (op = "chain" /\ locators # <<>> /\ max_attempts >= 1) =>
        /\ (pc = "done" /\ OkClicks = {}) => (result = "False")
        /\ (result = "False") =>
              /\ \A j \in Positions :
                    /\ NumWaits(j) = max_attempts
                    /\ \A a \in 1..max_attempts : AttemptFailed(j, a)
              /\ Cardinality(IssuedOf({"wait"}, Positions)) = Len(locators) * max_attempts

C5_Witness ==
    /\ op = "chain" /\ Len(locators) = MaxChain /\ max_attempts = 2
    /\ result = "False"
    /\ Cardinality(CompletedOf({"wait"}, Positions, Outcomes)) = MaxChain * 2

\* ---- C6 ----------------------------------------------------------------------
\* C6: for max_attempts >= 1, whichever of the driver calls raise, neither
\* operation lets the error escape to its caller: every invocation that has
\* ended has returned True or False, and one that ended with every attempt
\* failed has returned False.
C6_NoErrorEscapesBooleanResult ==
    (max_attempts >= 1) =>
        /\ result # "raised"
        /\ (pc = "done") => (result \in {"True", "False"})
        /\ (pc = "done" /\ OkClicks = {}) => (result = "False")

C6_Witness ==
    /\ max_attempts >= 1 /\ pc = "done" /\ result = "False"
    /\ trace # <<>> /\ trace[Len(trace)].res = "raise"
    /\ CompletedOf({"wait"}, Positions, {"raise"}) # {}
    /\ CompletedOf({"click"}, Positions, {"raise"}) # {}
    /\ CompletedOf({"force"}, Positions, {"raise"}) # {}

\* ---- C7 ----------------------------------------------------------------------
\* The driver of the scenario: A never attaches, B attaches, B's first
\* normal click raises, B's forced click succeeds.
C7_Scenario ==
    /\ op = "chain" /\ locators = <<"A", "B", "C">> /\ max_attempts = 2
    /\ pc = "done"
    /\ \A i \in 1..Len(trace) :
          /\ (trace[i].idx = 1 /\ trace[i].kind = "wait") => (trace[i].res = "raise")
          /\ (trace[i].idx = 2 /\ trace[i].kind = "wait") => (trace[i].res = "ok")
          /\ (trace[i].idx = 2 /\ trace[i].kind = "force") => (trace[i].res = "ok")
          /\ (trace[i].idx = 2 /\ trace[i].kind = "click"
                /\ \A h \in 1..(i - 1) : ~(trace[h].idx = 2 /\ trace[h].kind = "click"))
             => (trace[i].res = "raise")

\* C7: chain [A, B, C] with max_attempts = 2 under that driver returns True;
\* A gets exactly 2 waits and no click, B exactly 1 wait, 1 failed normal
\* click and 1 successful forced click, and C gets no driver call.
C7_ScenarioViaBForced ==
    C7_Scenario =>
        /\ result = "True"
        /\ Cardinality(IssuedOf({"wait"}, {1})) = 2
        /\ IssuedOf(Clicks, {1}) = {}
        /\ Cardinality(IssuedOf({"wait"}, {2})) = 1
        /\ Cardinality(IssuedOf({"click"}, {2})) = 1
        /\ Cardinality(CompletedOf({"click"}, {2}, {"raise"})) = 1
        /\ Cardinality(IssuedOf({"force"}, {2})) = 1
        /\ Cardinality(CompletedOf({"force"}, {2}, {"ok"})) = 1
        /\ IssuedOf(AllKinds, {3}) = {}

C7_Witness ==
    /\ C7_Scenario
    /\ result = "True"
    /\ trace[Len(trace)].kind = "force" /\ trace[Len(trace)].locator = "B"

\* ---- C8 ----------------------------------------------------------------------
SameAttempt(c, e) == c.idx = e.idx /\ c.attempt = e.attempt

\* The attempts (candidate, attempt number) that the calls numbered in S belong to.
AttemptsOf(S) == {<<IssuedCall(i).idx, IssuedCall(i).attempt>> : i \in S}

\* C8: in both operations a forced click is issued exactly when the normal
\* click of the same attempt has raised: the call issued right after a
\* normal click that raised is the forced click of that attempt, a forced
\* click is always directly preceded by the failed normal click of its
\* attempt, no attempt has two forced clicks, and the attempts with a forced
\* click are exactly those whose normal click raised.  So click_with_retry with
\* max_attempts = 3, every wait attaching and every click raising, ends with
\* exactly 3 normal clicks and 3 forced clicks and returns False.
C8_ForcedClickAfterEveryFailedClick ==
    /\ \A i \in 1..Len(trace) :
          (trace[i].kind = "click" /\ trace[i].res = "raise") =>
              /\ i + 1 <= NumIssuedCalls
              /\ IssuedCall(i + 1).kind = "force"
              /\ SameAttempt(IssuedCall(i + 1), trace[i])
    /\ \A i \in 1..NumIssuedCalls :
          (IssuedCall(i).kind = "force") =>
              /\ i > 1
              /\ trace[i - 1].kind = "click" /\ trace[i - 1].res = "raise"
              /\ SameAttempt(trace[i - 1], IssuedCall(i))
    /\ Cardinality(AttemptsOf(IssuedOf({"force"}, Positions)))
          = Cardinality(IssuedOf({"force"}, Positions))
    /\ AttemptsOf(IssuedOf({"force"}, Positions))
          = AttemptsOf(CompletedOf({"click"}, Positions, {"raise"}))
    /\ (/\ op = "retry" /\ max_attempts = 3 /\ pc = "done"
        /\ CompletedOf({"wait"}, {1}, {"raise"}) = {}
        /\ OkClicks = {})
       => /\ Cardinality(CompletedOf({"click"}, {1}, {"raise"})) = 3
          /\ Cardinality(CompletedOf({"force"}, {1}, {"raise"})) = 3
          /\ Cardinality(IssuedOf(Clicks, {1})) = 6
          /\ result = "False"

C8_Witness ==
    /\ op = "retry" /\ max_attempts = 3 /\ pc = "done" /\ result = "False"
    /\ CompletedOf({"wait"}, {1}, {"raise"}) = {}
    /\ Cardinality(CompletedOf({"force"}, {1}, {"raise"})) = 3

\* ---- C9 ----------------------------------------------------------------------
\* C9: in any run of either operation at most one click call returns
\* success, that call is the last driver call of the run (none is issued
\* after it), and the function has returned True exactly when such a click
\* has occurred.
C9_OneSuccessfulClickLast ==
    /\ Cardinality(OkClicks) <= 1
    /\ \A i \in OkClicks : i = NumIssuedCalls
    /\ (result = "True") <=> (OkClicks # {})

C9_Witness ==
    /\ op = "chain" /\ result = "True" /\ locator_idx = 2 /\ attempt = 2
    /\ OkClicks = {Len(trace)}

\* ---- C10 ---------------------------------------------------------------------
\* C10: within one invocation at most one driver call is outstanding at any
\* time; the attempts of a candidate are started in the order 1, 2, ...; and
\* the position of the candidate being tried never decreases, so a candidate
\* once left is never tried again.  Read off the calls in order of issue: the
\* first is the wait of attempt 1, a wait that follows starts either the next
\* attempt on the same candidate or attempt 1 on a later candidate, and any
\* other call belongs to the attempt of the call before it.
C10_StrictlySequentialInOrder ==
    /\ Len(pending) <= 1
    /\ (NumIssuedCalls >= 1) =>
          (IssuedCall(1).kind = "wait" /\ IssuedCall(1).attempt = 1)
    /\ \A i \in 1..(NumIssuedCalls - 1) :
          LET c == IssuedCall(i)
              n == IssuedCall(i + 1)
          IN  /\ c.idx <= n.idx
              /\ IF n.kind = "wait"
                 THEN \/ n.idx = c.idx /\ n.attempt = c.attempt + 1
                      \/ n.idx > c.idx /\ n.attempt = 1
                 ELSE SameAttempt(c, n)

C10_Witness ==
    /\ op = "chain" /\ locator_idx = 3 /\ attempt = 2
    /\ Len(pending) = 1 /\ pending[1].kind = "click"
    /\ Cardinality(IssuedOf({"wait"}, Positions)) >= 5

\* ---- C11 ---------------------------------------------------------------------
\* The completed call e ended its attempt in failure: a wait that timed out
\* or a forced click that raised.
EndsAttemptFailed(e) ==
    e.res = "raise" /\ e.kind \in {"wait", "force"}

\* C11: a backoff pause follows a failed attempt exactly when the attempt is
\* not the last one on its locator.  After a failed attempt numbered below
\* max_attempts the next call is one backoff sleep and after that the wait of
\* the next attempt on the same locator; after failed attempt max_attempts
\* there is no sleep: click_with_retry returns False, and the chain goes
\* straight to the first wait on the next locator or returns False.  Every
\* backoff sleep directly follows such a failed, non-last attempt, so an
\* all-fail run of click_with_retry has max_attempts - 1 backoff sleeps.
C11_BackoffOnlyBetweenAttempts ==
    /\ \A i \in 1..Len(trace) :
          EndsAttemptFailed(trace[i]) =>
              IF trace[i].attempt < max_attempts
              THEN /\ i + 1 <= NumIssuedCalls
                   /\ IssuedCall(i + 1).kind = "backoff"
                   /\ SameAttempt(IssuedCall(i + 1), trace[i])
                   /\ (i + 2 <= NumIssuedCalls) =>
                         /\ IssuedCall(i + 2).kind = "wait"
                         /\ IssuedCall(i + 2).idx = trace[i].idx
                         /\ IssuedCall(i + 2).attempt = trace[i].attempt + 1
              ELSE IF i + 1 <= NumIssuedCalls
                   THEN /\ op = "chain"
                        /\ IssuedCall(i + 1).kind = "wait"
                        /\ IssuedCall(i + 1).idx = trace[i].idx + 1
                        /\ IssuedCall(i + 1).attempt = 1
                   ELSE pc = "done" /\ result = "False"
    /\ \A i \in 1..NumIssuedCalls :
          (IssuedCall(i).kind = "backoff") =>
              /\ i > 1
              /\ EndsAttemptFailed(trace[i - 1])
              /\ SameAttempt(trace[i - 1], IssuedCall(i))
              /\ IssuedCall(i).attempt < max_attempts
    /\ (op = "retry" /\ result = "False") =>
          Cardinality(IssuedOf({"backoff"}, {1})) = max_attempts - 1

C11_Witness ==
    /\ op = "chain" /\ max_attempts = 2 /\ Len(locators) >= 2 /\ locator_idx = 2
    /\ Len(trace) >= 4
    /\ trace[1].kind = "wait" /\ trace[1].res = "raise"
    /\ trace[2].kind = "backoff"
    /\ EndsAttemptFailed(trace[Len(trace)]) /\ trace[Len(trace)].idx = 1
    /\ pending # <<>> /\ pending[1].kind = "wait"

\* ---- C12 ---------------------------------------------------------------------
\* C12: within every attempt of either operation the calls come in the order
\* wait_for_selector, settle pause, normal click, (forced click): a settle
\* pause directly follows the successful wait of its attempt, a normal click
\* directly follows the settle pause of its attempt, a forced click directly
\* follows the normal click of its attempt.  After a wait that timed out the
\* attempt is over: the next call, if any, is a backoff sleep or the wait of
\* another attempt, never a settle pause or a click.  So there are never more
\* normal clicks than successful waits.
C12_WaitSettleClickOrder ==
    /\ \A i \in 1..NumIssuedCalls :
          LET c == IssuedCall(i)
          IN  /\ (c.kind = "settle") =>
                    /\ i > 1 /\ trace[i - 1].kind = "wait" /\ trace[i - 1].res = "ok"
                    /\ SameAttempt(trace[i - 1], c)
              /\ (c.kind = "click") =>
                    /\ i > 1 /\ trace[i - 1].kind = "settle"
                    /\ SameAttempt(trace[i - 1], c)
              /\ (c.kind = "force") =>
                    /\ i > 1 /\ trace[i - 1].kind = "click"
                    /\ SameAttempt(trace[i - 1], c)
    /\ \A i \in 1..Len(trace) :
          /\ (trace[i].kind = "wait" /\ trace[i].res = "ok") =>
                /\ i + 1 <= NumIssuedCalls
                /\ IssuedCall(i + 1).kind = "settle"
          /\ (trace[i].kind = "wait" /\ trace[i].res = "raise" /\ i + 1 <= NumIssuedCalls) =>
                /\ IssuedCall(i + 1).kind \in {"backoff", "wait"}
                /\ (IssuedCall(i + 1).kind = "wait") => ~SameAttempt(IssuedCall(i + 1), trace[i])
    /\ Cardinality(IssuedOf({"click"}, Positions))
          <= Cardinality(CompletedOf({"wait"}, Positions, {"ok"}))

C12_Witness ==
    /\ op = "retry" /\ pc = "force" /\ attempt = 2
    /\ Len(trace) = 5
    /\ trace[1].kind = "wait" /\ trace[1].res = "raise"
    /\ trace[2].kind = "backoff"
    /\ trace[3].kind = "wait" /\ trace[3].res = "ok"
    /\ trace[4].kind = "settle"
    /\ trace[5].kind = "click" /\ trace[5].res = "raise"

\* ---- C13 ---------------------------------------------------------------------
\* Every driver call eventually returns or raises: the coroutine is always
\* resumed, so a step that is possible is eventually taken.
FairSpec == Spec /\ WF_vars(Next)

\* C13: every invocation of either operation ends in one of exactly two
\* outcomes, returned True or returned False, having issued at most
\* Len(locators) * max_attempts waits, as many normal clicks and as many
\* forced clicks (the product is read as a count, for max_attempts >= 0).
C13_TwoTerminalOutcomesWithinBounds ==
    /\ (pc = "done") => (result \in {"True", "False"})
    /\ (max_attempts >= 0) =>
          /\ Cardinality(IssuedOf({"wait"}, Positions)) <= Len(locators) * max_attempts
          /\ Cardinality(IssuedOf({"click"}, Positions)) <= Len(locators) * max_attempts
          /\ Cardinality(IssuedOf({"force"}, Positions)) <= Len(locators) * max_attempts

\* The part of C13 that the code keeps: the call bounds hold for every
\* max_attempts, and for max_attempts >= 1 the outcome is True or False.
C13_BoundsAndOutcomeForPositive ==
    /\ (pc = "done" /\ max_attempts >= 1) => (result \in {"True", "False"})
    /\ (max_attempts >= 0) =>
          /\ Cardinality(IssuedOf({"wait"}, Positions)) <= Len(locators) * max_attempts
          /\ Cardinality(IssuedOf({"click"}, Positions)) <= Len(locators) * max_attempts
          /\ Cardinality(IssuedOf({"force"}, Positions)) <= Len(locators) * max_attempts

\* Under FairSpec every invocation ends.
C13_EventuallyDone == <>(pc = "done")

\* ---- C14 ---------------------------------------------------------------------
\* The wait_for_selector, normal-click and forced-click calls of a history,
\* in order, each as <<kind, attempt, outcome>>, and the driver's answers alone.
DriverCalls(tr) == SelectSeq(tr, LAMBDA e : e.kind \in {"wait", "click", "force"})

CallSequence(tr) ==
    LET d == DriverCalls(tr)
    IN  [i \in 1..Len(d) |-> <<d[i].kind, d[i].attempt, d[i].res>>]

Answers(tr) ==
    LET d == DriverCalls(tr)
    IN  [i \in 1..Len(d) |-> d[i].res]

\* click_with_retry as a function of the driver's answers: attempt a starts
\* with answer number p of script; calls are the driver calls made so far.
\* The value is the returned result and the calls made ("pending" when the
\* script ends before the function does).
RECURSIVE retry_run(_, _, _, _)
retry_run(a, p, script, calls) ==
    LET except(q, made) ==
            IF a < max_attempts
            THEN retry_run(a + 1, q, script, made)
            ELSE [result |-> "False", calls |-> made]
        waited == Append(calls, <<"wait", a, script[p]>>)
        clicked == Append(waited, <<"click", a, script[p + 1]>>)
        forced == Append(clicked, <<"force", a, script[p + 2]>>)
    IN  IF a \notin retry_range(max_attempts) THEN [result |-> "None", calls |-> calls]
        ELSE IF p > Len(script) THEN [result |-> "pending", calls |-> calls]
        ELSE IF script[p] = "raise" THEN except(p + 1, waited)
        ELSE IF p + 1 > Len(script) THEN [result |-> "pending", calls |-> waited]
        ELSE IF script[p + 1] = "ok" THEN [result |-> "True", calls |-> clicked]
        ELSE IF p + 2 > Len(script) THEN [result |-> "pending", calls |-> clicked]
        ELSE IF script[p + 2] = "ok" THEN [result |-> "True", calls |-> forced]
        ELSE except(p + 3, forced)

\* C14: for one locator and max_attempts >= 1, click_with_fallback_chain on
\* the list of that locator and click_with_retry on the locator do the same
\* under the same driver answers: whichever of the two has run to its end,
\* click_with_retry fed the answers the driver gave in that run returns the
\* same boolean and makes the same sequence of wait, normal-click and
\* forced-click calls.
C14_SingletonChainEqualsRetry ==
    (Len(locators) = 1 /\ max_attempts >= 1 /\ pc = "done") =>
        LET r == retry_run(1, 1, Answers(trace), <<>>)
        IN  /\ r.result = result
            /\ r.calls = CallSequence(trace)

C14_Witness ==
    /\ op = "chain" /\ Len(locators) = 1 /\ max_attempts = MaxAttempts /\ pc = "done"
    /\ Len(DriverCalls(trace)) >= 6
    /\ CompletedOf({"wait"}, {1}, {"raise"}) # {}
    /\ CompletedOf({"force"}, {1}, {"raise"}) # {}
    /\ retry_run(1, 1, Answers(trace), <<>>).result = "True"

\* ---- run_batch_execution -----------------------------------------------------
\* max_attempts of the export click (line 353).
ExportMaxAttempts == 3

\* The batch as called, with no project begun; the export click is a call of
\* click_with_retry on the export-button locator that has not started yet.
InitBatch ==
    /\ op = "retry"
    /\ locators = <<Locator[1]>>
    /\ max_attempts = ExportMaxAttempts
    /\ locator_idx = 0
    /\ attempt = 0
    /\ pc = "idle"
    /\ pending = <<>>
    /\ trace = <<>>
    /\ result = "pending"
    /\ num_projects \in 0..MaxProjects
    /\ project_num = 0
    /\ successful = 0
    /\ failed = 0
    /\ bpc = "start"
    /\ exports = <<>>
    /\ counted = <<>>

\* Head of "for project_num in range(1, num_projects + 1)" with next as the
\* next value; after the loop comes the summary, whose success rate divides
\* by num_projects (line 545) and so raises when there is no project.
batch_for(next) ==
    IF next \in 1..num_projects
    THEN /\ project_num' = next
         /\ bpc' = "setup"
    ELSE /\ project_num' = project_num
         /\ bpc' = (IF num_projects = 0 THEN "raised" ELSE "done")

\* The method returned normally: lines 533-534.
batch_project_completed ==
    /\ successful' = successful + 1
    /\ failed' = failed
    /\ counted' = Append(counted, "successful")
    /\ batch_for(project_num + 1)

\* The method raised: "except Exception as e", lines 536-538.
batch_except ==
    /\ failed' = failed + 1
    /\ successful' = successful
    /\ counted' = Append(counted, "failed")
    /\ batch_for(project_num + 1)

\* The locals of a click_with_retry call that is over.
retry_call_over ==
    /\ pc' = "idle"
    /\ pending' = <<>>
    /\ trace' = <<>>
    /\ result' = "pending"
    /\ attempt' = 0

run_batch_execution ==
    /\ bpc = "start"
    /\ batch_for(1)
    /\ UNCHANGED <<op, locators, max_attempts, locator_idx, attempt, pc, pending, trace, result>>
    /\ UNCHANGED <<num_projects, successful, failed, exports, counted>>

\* run_with_data_testid_locator up to the export click (lines 325-353): the
\* browser is launched, the page loaded, the hamburger clicked, the export
\* button awaited, and click_with_retry is called.
testid_setup_ok ==
    /\ bpc = "setup"
    /\ pc = "idle"
    /\ pc' = "start"
    /\ bpc' = "click"
    /\ UNCHANGED <<op, locators, max_attempts, locator_idx, attempt, pending, trace, result>>
    /\ UNCHANGED <<num_projects, project_num, successful, failed, exports, counted>>

\* One of those driver calls raised: the error leaves the method.
testid_setup_raises ==
    /\ bpc = "setup"
    /\ exports' = Append(exports, "none")
    /\ batch_except
    /\ UNCHANGED <<op, locators, max_attempts, locator_idx, attempt, pc, pending, trace, result>>
    /\ UNCHANGED num_projects

\* "if success:" (lines 354-355): the method goes on to its last steps.
testid_click_succeeded ==
    /\ bpc = "click"
    /\ pc = "done"
    /\ result = "True"
    /\ exports' = Append(exports, result)
    /\ bpc' = "finish"
    /\ retry_call_over
    /\ UNCHANGED <<op, locators, max_attempts, locator_idx>>
    /\ UNCHANGED <<num_projects, project_num, successful, failed, counted>>

\* "else:" (lines 356-358): the failure is logged and the context closed.
testid_click_failed ==
    /\ bpc = "click"
    /\ pc = "done"
    /\ result # "True"
    /\ exports' = Append(exports, result)
    /\ bpc' = "close"
    /\ retry_call_over
    /\ UNCHANGED <<op, locators, max_attempts, locator_idx>>
    /\ UNCHANGED <<num_projects, project_num, successful, failed, counted>>

\* context.close() returned and the method returns (line 359), without
\* raising and without a value.
testid_close_ok ==
    /\ bpc = "close"
    /\ batch_project_completed
    /\ UNCHANGED <<op, locators, max_attempts, locator_idx, attempt, pc, pending, trace, result>>
    /\ UNCHANGED <<num_projects, exports>>

testid_close_raises ==
    /\ bpc = "close"
    /\ batch_except
    /\ UNCHANGED <<op, locators, max_attempts, locator_idx, attempt, pc, pending, trace, result>>
    /\ UNCHANGED <<num_projects, exports>>

\* The last steps after a successful export click (lines 355, 361-367).
testid_finish_ok ==
    /\ bpc = "finish"
    /\ batch_project_completed
    /\ UNCHANGED <<op, locators, max_attempts, locator_idx, attempt, pc, pending, trace, result>>
    /\ UNCHANGED <<num_projects, exports>>

testid_finish_raises ==
    /\ bpc = "finish"
    /\ batch_except
    /\ UNCHANGED <<op, locators, max_attempts, locator_idx, attempt, pc, pending, trace, result>>
    /\ UNCHANGED <<num_projects, exports>>

NextBatch ==
    \/ run_batch_execution
    \/ testid_setup_ok
    \/ testid_setup_raises
    \/ testid_click_succeeded
    \/ testid_click_failed
    \/ testid_close_ok
    \/ testid_close_raises
    \/ testid_finish_ok
    \/ testid_finish_raises
    \/ click_with_retry
    \/ retry_wait_attached
    \/ retry_wait_timeout
    \/ retry_settled
    \/ retry_click_ok
    \/ retry_click_raises
    \/ retry_force_ok
    \/ retry_force_raises
    \/ retry_backoff_done

SpecBatch == InitBatch /\ [][NextBatch]_vars

\* ---- C15 ---------------------------------------------------------------------
\* C15: in run_batch_execution a project is counted in successful only if
\* its export click succeeded (click_with_retry returned True), a project
\* whose export click used up all retries (click_with_retry returned False)
\* is counted in failed, and at the end successful + failed = num_projects.
C15_BatchCountsFollowExportClick ==
    /\ \A p \in 1..Len(counted) :
          /\ (counted[p] = "successful") => (exports[p] = "True")
          /\ (exports[p] = "False") => (counted[p] = "failed")
    /\ (bpc \in {"done", "raised"}) => (successful + failed = num_projects)

\* The part of C15 that the code keeps: every project gone through is
\* counted once, and at the end successful + failed = num_projects.
C15_CountsAddUp ==
    /\ successful + failed = Len(counted)
    /\ successful = Cardinality({p \in 1..Len(counted) : counted[p] = "successful"})
    /\ (bpc \in {"done", "raised"}) => (successful + failed = num_projects)

C16_WitnessChain ==
    /\ max_attempts = 0 /\ op = "chain" /\ Len(locators) = MaxChain /\ pc = "done"
    /\ result = "False" /\ trace = <<>>

====
